---- MODULE Spec2Model ----
(***************************************************************************)
(* Model of mlbot (src/bot.py): a bot that polls the Lisbon metro status   *)
(* page, compares each line's status with the pickled status of the last   *)
(* run and publishes every change to Twitter (chunked, with a duplicate    *)
(* retry) and to Telegram.                                                 *)
(*                                                                         *)
(* Python strings are TLA+ strings (Len, \o, SubSeq, Head and Tail work on *)
(* them in TLC).  The module is ASCII, so the three non-ASCII code points  *)
(* of the source are written with stand-ins of the same length:            *)
(*   U+2705          (1 code point, the glyph of an ok status)    is "+"    *)
(*   U+26A0 U+FE0F   (2 code points, the glyph of a disruption)   is "!^"   *)
(***************************************************************************)
EXTENDS Integers, Sequences, FiniteSets, TLC

VARIABLES
    state_file,   \* the pickle file: [exists, data]
    posted,       \* statuses the Twitter account holds (duplicate detection)
    clock,        \* wall clock, minutes since midnight
    cycle,        \* number of invocations of the program started so far
    pc,           \* position of the running invocation
    pretend,      \* self.pretend
    self_status,  \* self.status
    status,       \* check's local `status` (the fetched snapshot)
    idx,          \* position of check's for loop in the fetched dict
    message,      \* the message handed to publish by state_change
    stack,        \* the active publish_twitter calls: [message, ts, parts, i]
    dst,          \* position of publish_telegram's for loop
    error,        \* the exception that ended the invocation, "" if none
    loaded,       \* history: self.status as __init__ loaded it
    seen,         \* history: number of lines the for loop has decided on
    events,       \* history: lines state_change was called for, in order
    calls,        \* history: <<publisher, line>> per publisher call, in order
    outbox,       \* history: outbound requests performed, in order
    loads,        \* history: reads of the state file by this invocation
    writes,       \* history: writes of the state file by this invocation
    retries,      \* history: recursive publish_twitter calls of this invocation
    rejects,      \* history: posts rejected with code 187 in this invocation
    fetched,      \* history: get_status returned in this invocation
    prev,         \* history: [fetched, status] of the previous invocation
    cmsg,         \* chunking loop taken alone: the message
    cts,          \* chunking loop taken alone: the timestamp
    cloop,        \* chunking loop taken alone: [words, parts]
    cpc,          \* chunking loop taken alone: "loop" or "done"
    env,          \* os.environ: the names of the variables that are set
    diag,         \* the line __main__ logged at level critical, "" if none
    procs,        \* overlapping invocations: [pc, self_status, status, events]
    last_writer   \* overlapping invocations: who wrote the state file last

vars == <<state_file, posted, clock, cycle, pc, pretend, self_status, status,
          idx, message, stack, dst, error, loaded, seen, events, calls, outbox,
          loads, writes, retries, rejects, fetched, prev, cmsg, cts, cloop, cpc,
          env, diag, procs, last_writer>>

mainVars == <<state_file, posted, clock, cycle, pc, pretend, self_status, status,
              idx, message, stack, dst, error, loaded, seen, events, calls,
              outbox, loads, writes, retries, rejects, fetched, prev>>

chunkVars == <<cmsg, cts, cloop, cpc>>

mainEnvVars == <<env, diag>>

overlapVars == <<procs, last_writer>>

----------------------------------------------------------------------------
(* Bounds *)

MaxCycles == 1      \* invocations of the program the scheduler starts
MaxTicks == 1       \* minutes the clock may advance
MaxDepth == 3       \* nested publish_twitter calls followed
MaxParts == 4       \* parts the chunking loop taken alone may append

----------------------------------------------------------------------------
(* Program constants *)

TweetLimit == 270
DuplicateCode == 187

LINES == <<"Amarela", "Vermelha", "Azul", "Verde">>

STRINGS == [LINE |-> "Linha"]

UP_GLYPH == "+"
DOWN_GLYPH == "!^"

\* os.environ['TELEGRAM_DESTINATION'].split(',')
Destinations == <<"@metro", "@alertas">>

----------------------------------------------------------------------------
(* Strings *)

\* n copies of s (by halving, to keep the evaluation shallow)
RECURSIVE Rep(_, _)
Rep(s, n) ==
    IF n = 0 THEN ""
    ELSE LET h == Rep(s, n \div 2)
         IN  IF n % 2 = 0 THEN h \o h ELSE h \o h \o s

\* str.split(" "): the words between single spaces, empty words included.
\* The string is halved and the word cut by the middle is glued again.
RECURSIVE Split(_)
Split(s) ==
    IF Len(s) = 0 THEN <<"">>
    ELSE IF Len(s) = 1 THEN (IF s = " " THEN <<"", "">> ELSE <<s>>)
    ELSE LET h == Len(s) \div 2
             l == Split(SubSeq(s, 1, h))
             r == Split(SubSeq(s, h + 1, Len(s)))
         IN  SubSeq(l, 1, Len(l) - 1) \o <<l[Len(l)] \o r[1]>> \o Tail(r)

EndsWith(s, c) == Len(s) > 0 /\ SubSeq(s, Len(s), Len(s)) = c

StartsWith(s, p) == Len(s) >= Len(p) /\ SubSeq(s, 1, Len(p)) = p

UpperChar(c) ==
    CASE c = "a" -> "A" [] c = "b" -> "B" [] c = "c" -> "C" [] c = "d" -> "D"
      [] c = "e" -> "E" [] c = "f" -> "F" [] c = "g" -> "G" [] c = "h" -> "H"
      [] c = "i" -> "I" [] c = "j" -> "J" [] c = "k" -> "K" [] c = "l" -> "L"
      [] c = "m" -> "M" [] c = "n" -> "N" [] c = "o" -> "O" [] c = "p" -> "P"
      [] c = "q" -> "Q" [] c = "r" -> "R" [] c = "s" -> "S" [] c = "t" -> "T"
      [] c = "u" -> "U" [] c = "v" -> "V" [] c = "w" -> "W" [] c = "x" -> "X"
      [] c = "y" -> "Y" [] c = "z" -> "Z" [] OTHER -> c

Digit(n) == SubSeq("0123456789", n + 1, n + 1)

TwoDigits(n) == Digit(n \div 10) \o Digit(n % 10)

\* strftime("[%H:%M]") of a time given in minutes since midnight
Timestamp(t) == "[" \o TwoDigits((t \div 60) % 24) \o ":" \o TwoDigits(t % 60) \o "]"

----------------------------------------------------------------------------
(* publish_twitter: the chunking loop *)

\* Fill with the comparison of line 189 off by one (<= for <)
RECURSIVE FillOffByOne(_, _)
FillOffByOne(part, words) ==
    IF words = <<>> THEN [part |-> part, words |-> words]
    ELSE LET joined == part \o " " \o Head(words)
         IN  IF Len(joined) <= TweetLimit
             THEN FillOffByOne(joined, Tail(words))
             ELSE [part |-> part, words |-> words]

\* the inner while loop: pack words into part while the joined text is
\* shorter than the limit
RECURSIVE Fill(_, _)
Fill(part, words) ==
    IF words = <<>> THEN [part |-> part, words |-> words]
    ELSE LET joined == part \o " " \o Head(words)
         IN  IF Len(joined) < TweetLimit
             THEN Fill(joined, Tail(words))
             ELSE [part |-> part, words |-> words]

\* one iteration of the outer while loop
ChunkIterate(ts, st) ==
    LET f == Fill(ts, st.words)
    IN  [words |-> f.words, parts |-> Append(st.parts, f.part)]

RECURSIVE ChunkRun(_, _)
ChunkRun(ts, st) ==
    IF st.words = <<>> THEN st.parts ELSE ChunkRun(ts, ChunkIterate(ts, st))

\* the list `parts` when the loop ends
Parts(msg, ts) == ChunkRun(ts, [words |-> Split(msg), parts |-> <<>>])

----------------------------------------------------------------------------
(* Inputs: what the status page, the state file and the account may hold *)

MLStatus(m, o) == [message |-> m, ok |-> o]

NormalText == "circulacao normal"
FaultText == "Avaria na linha."
LongText == Rep("atraso ", 44) \o "fim"

Statuses == {MLStatus(NormalText, TRUE), MLStatus(FaultText, TRUE),
             MLStatus(NormalText, FALSE), MLStatus(FaultText, FALSE),
             MLStatus(LongText, FALSE)}

Lines == {LINES[k] : k \in 1..Len(LINES)}

\* a dict as get_status returns it, with the status a for Amarela while the
\* other lines run normally
Snapshot(a) ==
    [l \in Lines |-> IF l = "Amarela" THEN a ELSE MLStatus(NormalText, TRUE)]

\* the dicts get_status can return
Snapshots == {Snapshot(a) : a \in Statuses}

NoStatus == [l \in {} |-> MLStatus("", TRUE)]

\* a state file written before the line Verde was added to LINES
OlderFile == [l \in Lines \ {"Verde"} |-> MLStatus(NormalText, TRUE)]

\* a state file written by a run that found Amarela disrupted
DisruptedFile == Snapshot(MLStatus(NormalText, FALSE))

\* the state file as the first invocation finds it
StateFiles ==
    {[exists |-> FALSE, data |-> NoStatus]}
    \cup {[exists |-> TRUE, data |-> s] : s \in {OlderFile, DisruptedFile}}

----------------------------------------------------------------------------
(* check: change detection (lines 78-87) *)

\* ShouldNotify without the `not current.ok` of line 85: any change of message
\* notifies
ShouldNotifyAnyMessage(old, line, current) ==
    IF line \notin DOMAIN old THEN TRUE
    ELSE \/ current.ok # old[line].ok
         \/ current.message # old[line].message

\* ShouldNotify that stays silent about a line seen for the first time
ShouldNotifySkipsFirstRun(old, line, current) ==
    IF line \notin DOMAIN old THEN FALSE
    ELSE \/ current.ok # old[line].ok
         \/ (~current.ok /\ current.message # old[line].message)

\* the condition under which the for loop calls state_change for a line
ShouldNotify(old, line, current) ==
    IF line \notin DOMAIN old THEN TRUE
    ELSE \/ current.ok # old[line].ok
         \/ (~current.ok /\ current.message # old[line].message)

\* Format that appends the period whatever the message ends with
FormatAlwaysPeriod(line, st) ==
    LET emoji == IF st.ok THEN UP_GLYPH ELSE DOWN_GLYPH
        m == UpperChar(Head(st.message)) \o Tail(st.message)
    IN  emoji \o " " \o STRINGS.LINE \o " " \o line \o ": " \o m \o "."

\* state_change: the message handed to publish
Format(line, st) ==
    LET emoji == IF st.ok THEN UP_GLYPH ELSE DOWN_GLYPH
        m == UpperChar(Head(st.message)) \o Tail(st.message)
        msg == IF EndsWith(m, ".") THEN m ELSE m \o "."
    IN  emoji \o " " \o STRINGS.LINE \o " " \o line \o ": " \o msg

\* a publish_twitter call as it starts posting
Frame(msg) ==
    [message |-> msg, ts |-> Timestamp(clock),
     parts |-> Parts(msg, Timestamp(clock)), i |-> 1]

\* statuses the account may hold from before: one earlier post at most
EarlierPosts ==
    {Parts(Format("Amarela", MLStatus(FaultText, FALSE)), Timestamp(0))[1],
     Parts(Format("Amarela", MLStatus(LongText, FALSE)), Timestamp(0))[1]}

\* __main__, lines 225-238: the variables os.environ[...] reads, in the order
\* Python evaluates them; the Twitter ones are not read when pretend is set
TwitterSettings ==
    <<"TWITTER_CONSUMER_KEY", "TWITTER_CONSUMER_SECRET",
      "TWITTER_ACCESS_TOKEN_KEY", "TWITTER_ACCESS_TOKEN_SECRET">>

TelegramSettings == <<"TELEGRAM_KEY", "TELEGRAM_DESTINATION">>

Required(p) ==
    <<"BOT_STATE_FILE">> \o (IF p THEN <<>> ELSE TwitterSettings)
                        \o TelegramSettings

Settings == {Required(FALSE)[k] : k \in 1..Len(Required(FALSE))}

\* the required variables that are not set in e, in reading order
Missing(e, p) == SelectSeq(Required(p), LAMBDA k : k \notin e)

\* line 241: str() of a KeyError is the repr of its key
Diagnostic(k) == "Environment variable '" \o k \o "' not found."

\* no previous invocation
NoPrev ==
    [fetched |-> FALSE, status |-> NoStatus, done |-> FALSE, pretend |-> FALSE]

\* no overlapping invocations
NoProcs == <<>>

Init ==
    /\ state_file \in StateFiles
    /\ posted \in {{}} \cup {{p} : p \in EarlierPosts}
    /\ clock = 0
    /\ cycle = 0
    /\ pc = "idle"
    /\ pretend = FALSE
    /\ self_status = NoStatus
    /\ status = NoStatus
    /\ idx = 0
    /\ message = ""
    /\ stack = <<>>
    /\ dst = 0
    /\ error = ""
    /\ loaded = NoStatus
    /\ seen = 0
    /\ events = <<>>
    /\ calls = <<>>
    /\ outbox = <<>>
    /\ loads = 0
    /\ writes = 0
    /\ retries = 0
    /\ rejects = 0
    /\ fetched = FALSE
    /\ prev = NoPrev
    /\ cmsg = ""
    /\ cts = ""
    /\ cloop = [words |-> <<>>, parts |-> <<>>]
    /\ cpc = "done"
    /\ env = Settings
    /\ diag = ""
    /\ procs = NoProcs
    /\ last_writer = 0

\* the clock advances: between two invocations, or while publish_twitter runs
Tick ==
    /\ pc \in {"idle", "done", "raised", "twitter"}
    /\ clock < MaxTicks
    /\ clock' = clock + 1
    /\ UNCHANGED <<state_file, posted, cycle, pc, pretend, self_status, status,
                   idx, message, stack, dst, error, loaded, seen, events, calls,
                   outbox, loads, writes, retries, rejects, fetched, prev>>
    /\ UNCHANGED chunkVars
    /\ UNCHANGED mainEnvVars
    /\ UNCHANGED overlapVars

\* the program is started, for the n-th time at most, with BOT_PRETEND set or
\* not: MLBot.__init__ loads the state file
Construct(p, n) ==
    /\ pc \in {"idle", "done", "raised"}
    /\ cycle < n
    /\ cycle' = cycle + 1
    /\ pretend' = p
    /\ self_status' = IF state_file.exists THEN state_file.data ELSE NoStatus
    /\ loaded' = IF state_file.exists THEN state_file.data ELSE NoStatus
    /\ loads' = 1
    /\ writes' = 0
    /\ pc' = "check"
    /\ prev' = [fetched |-> fetched, status |-> status,
                done |-> pc = "done", pretend |-> pretend]
    /\ status' = NoStatus
    /\ fetched' = FALSE
    /\ idx' = 0
    /\ seen' = 0
    /\ message' = ""
    /\ stack' = <<>>
    /\ dst' = 0
    /\ error' = ""
    /\ events' = <<>>
    /\ calls' = <<>>
    /\ outbox' = <<>>
    /\ retries' = 0
    /\ rejects' = 0
    /\ UNCHANGED <<state_file, posted, clock>>
    /\ UNCHANGED chunkVars
    /\ UNCHANGED mainEnvVars
    /\ UNCHANGED overlapVars

\* __main__, lines 224-239, with every variable it reads set: the bot is built
Main(p) ==
    /\ Missing(env, p) = <<>>
    /\ Construct(p, MaxCycles)

\* __main__, lines 224-241, with a variable missing: os.environ[...] raises
\* KeyError before MLBot is called, the handler logs the key and falls through
MainKeyError(p) ==
    /\ pc = "idle"
    /\ cycle < MaxCycles
    /\ Missing(env, p) # <<>>
    /\ cycle' = cycle + 1
    /\ pretend' = p
    /\ diag' = Diagnostic(Head(Missing(env, p)))
    /\ pc' = "unbound"
    /\ UNCHANGED <<state_file, posted, clock, self_status, status, idx, message,
                   stack, dst, error, loaded, seen, events, calls, outbox,
                   loads, writes, retries, rejects, fetched, prev, env>>
    /\ UNCHANGED chunkVars
    /\ UNCHANGED overlapVars

\* __main__, line 243, reached from the handler: the name bot was never
\* bound, bot.check() raises NameError and the interpreter prints a traceback
MainCheckUnbound ==
    /\ pc = "unbound"
    /\ error' = "NameError"
    /\ pc' = "raised"
    /\ UNCHANGED <<state_file, posted, clock, cycle, pretend, self_status,
                   status, idx, message, stack, dst, loaded, seen, events, calls,
                   outbox, loads, writes, retries, rejects, fetched, prev>>
    /\ UNCHANGED chunkVars
    /\ UNCHANGED mainEnvVars
    /\ UNCHANGED overlapVars

\* check, line 75: get_status returns the parsed page
GetStatus(s) ==
    /\ pc = "check"
    /\ status' = s
    /\ fetched' = TRUE
    /\ idx' = 1
    /\ pc' = "loop"
    /\ UNCHANGED <<state_file, posted, clock, cycle, pretend, self_status,
                   message, stack, dst, error, loaded, seen, events, calls,
                   outbox, loads, writes, retries, rejects, prev>>
    /\ UNCHANGED chunkVars
    /\ UNCHANGED mainEnvVars
    /\ UNCHANGED overlapVars

\* GetStatusFails that saves what was parsed before the failure
GetStatusFailsCommits ==
    /\ pc = "check"
    /\ pc' = "raised"
    /\ error' = "fetch"
    /\ self_status' = NoStatus
    /\ state_file' = [exists |-> TRUE, data |-> NoStatus]
    /\ writes' = writes + 1
    /\ UNCHANGED <<posted, clock, cycle, pretend, status, idx, message, stack,
                   dst, loaded, seen, events, calls, outbox, loads, retries,
                   rejects, fetched, prev>>
    /\ UNCHANGED chunkVars
    /\ UNCHANGED mainEnvVars
    /\ UNCHANGED overlapVars

\* check, line 75: urlopen or the parse raises
GetStatusFails ==
    /\ pc = "check"
    /\ pc' = "raised"
    /\ error' = "fetch"
    /\ UNCHANGED <<state_file, posted, clock, cycle, pretend, self_status,
                   status, idx, message, stack, dst, loaded, seen, events, calls,
                   outbox, loads, writes, retries, rejects, fetched, prev>>
    /\ UNCHANGED chunkVars
    /\ UNCHANGED mainEnvVars
    /\ UNCHANGED overlapVars

\* check, lines 78-87: one iteration of the for loop, up to the first post
CheckLine ==
    /\ pc = "loop"
    /\ idx <= Len(LINES)
    /\ seen' = idx
    /\ LET line == LINES[idx]
       IN  IF ShouldNotify(self_status, line, status[line])
           THEN /\ events' = Append(events, line)
                /\ message' = Format(line, status[line])
                /\ calls' = Append(calls, <<"twitter", line>>)
                /\ stack' = <<Frame(Format(line, status[line]))>>
                /\ pc' = "twitter"
                /\ UNCHANGED idx
           ELSE /\ idx' = idx + 1
                /\ UNCHANGED <<events, message, calls, stack, pc>>
    /\ UNCHANGED <<state_file, posted, clock, cycle, pretend, self_status,
                   status, dst, error, loaded, outbox, loads, writes, retries,
                   rejects, fetched, prev>>
    /\ UNCHANGED chunkVars
    /\ UNCHANGED mainEnvVars
    /\ UNCHANGED overlapVars

Top == stack[Len(stack)]

Advance(stk) == [stk EXCEPT ![Len(stk)].i = @ + 1]

Accepted == 0

\* the answer of the account to a post, when it is not another failure: the
\* error code of a duplicate if it holds the same status, else it takes it
PostUpdate(part) == IF part \in posted THEN DuplicateCode ELSE Accepted

\* publish_twitter, lines 197-200: in pretend mode the part is not posted
TwitterSkip ==
    /\ pc = "twitter"
    /\ pretend
    /\ Top.i <= Len(Top.parts)
    /\ stack' = Advance(stack)
    /\ UNCHANGED <<state_file, posted, clock, cycle, pc, pretend, self_status,
                   status, idx, message, dst, error, loaded, seen, events, calls,
                   outbox, loads, writes, retries, rejects, fetched, prev>>
    /\ UNCHANGED chunkVars
    /\ UNCHANGED mainEnvVars
    /\ UNCHANGED overlapVars

\* publish_twitter, line 200: PostUpdate succeeds
TwitterPost ==
    /\ pc = "twitter"
    /\ ~pretend
    /\ Top.i <= Len(Top.parts)
    /\ PostUpdate(Top.parts[Top.i]) = Accepted
    /\ posted' = posted \cup {Top.parts[Top.i]}
    /\ outbox' = Append(outbox, [channel |-> "twitter", to |-> "",
                                 text |-> Top.parts[Top.i]])
    /\ stack' = Advance(stack)
    /\ UNCHANGED <<state_file, clock, cycle, pc, pretend, self_status, status,
                   idx, message, dst, error, loaded, seen, events, calls, loads,
                   writes, retries, rejects, fetched, prev>>
    /\ UNCHANGED chunkVars
    /\ UNCHANGED mainEnvVars
    /\ UNCHANGED overlapVars

\* TwitterDuplicate that retries the rejected part, not the whole message
TwitterDuplicateRetriesPart ==
    /\ pc = "twitter"
    /\ ~pretend
    /\ Top.i <= Len(Top.parts)
    /\ PostUpdate(Top.parts[Top.i]) = DuplicateCode
    /\ Len(stack) < MaxDepth
    /\ rejects' = rejects + 1
    /\ retries' = retries + 1
    /\ stack' = Append(stack, Frame(Top.parts[Top.i] \o "."))
    /\ UNCHANGED <<state_file, posted, clock, cycle, pc, pretend, self_status,
                   status, idx, message, dst, error, loaded, seen, events, calls,
                   outbox, loads, writes, fetched, prev>>
    /\ UNCHANGED chunkVars
    /\ UNCHANGED mainEnvVars
    /\ UNCHANGED overlapVars

\* publish_twitter, lines 202-208: the account holds the same status, PostUpdate
\* raises with code 187 and the handler calls publish_twitter(message + '.')
TwitterDuplicate ==
    /\ pc = "twitter"
    /\ ~pretend
    /\ Top.i <= Len(Top.parts)
    /\ PostUpdate(Top.parts[Top.i]) = DuplicateCode
    /\ Len(stack) < MaxDepth
    /\ rejects' = rejects + 1
    /\ retries' = retries + 1
    /\ stack' = Append(stack, Frame(Top.message \o "."))
    /\ UNCHANGED <<state_file, posted, clock, cycle, pc, pretend, self_status,
                   status, idx, message, dst, error, loaded, seen, events, calls,
                   outbox, loads, writes, fetched, prev>>
    /\ UNCHANGED chunkVars
    /\ UNCHANGED mainEnvVars
    /\ UNCHANGED overlapVars

\* TwitterError that records the error and goes on with the next part
TwitterErrorSwallowed ==
    /\ pc = "twitter"
    /\ ~pretend
    /\ Top.i <= Len(Top.parts)
    /\ error' = "twitter"
    /\ stack' = Advance(stack)
    /\ UNCHANGED <<state_file, posted, clock, cycle, pc, pretend, self_status,
                   status, idx, message, dst, loaded, seen, events, calls,
                   outbox, loads, writes, retries, rejects, fetched, prev>>
    /\ UNCHANGED chunkVars
    /\ UNCHANGED mainEnvVars
    /\ UNCHANGED overlapVars

\* publish_twitter, lines 209-210: PostUpdate raises with another code; the
\* exception leaves every active publish_twitter call and check
TwitterError ==
    /\ pc = "twitter"
    /\ ~pretend
    /\ Top.i <= Len(Top.parts)
    /\ pc' = "raised"
    /\ error' = "twitter"
    /\ UNCHANGED <<state_file, posted, clock, cycle, pretend, self_status,
                   status, idx, message, stack, dst, loaded, seen, events, calls,
                   outbox, loads, writes, retries, rejects, fetched, prev>>
    /\ UNCHANGED chunkVars
    /\ UNCHANGED mainEnvVars
    /\ UNCHANGED overlapVars

\* TwitterReturn that goes back to the for loop without publish_telegram
TwitterReturnSkipsTelegram ==
    /\ pc = "twitter"
    /\ Top.i > Len(Top.parts)
    /\ IF Len(stack) > 1
       THEN /\ stack' = Advance(SubSeq(stack, 1, Len(stack) - 1))
            /\ UNCHANGED <<pc, idx>>
       ELSE /\ stack' = <<>>
            /\ pc' = "loop"
            /\ idx' = idx + 1
    /\ UNCHANGED <<state_file, posted, clock, cycle, pretend, self_status,
                   status, message, error, loaded, seen, events, outbox, dst,
                   calls, loads, writes, retries, rejects, fetched, prev>>
    /\ UNCHANGED chunkVars
    /\ UNCHANGED mainEnvVars
    /\ UNCHANGED overlapVars

\* publish_twitter returns: to the handler of the call that retried, whose for
\* loop goes on with its next part, or to publish, which calls publish_telegram
TwitterReturn ==
    /\ pc = "twitter"
    /\ Top.i > Len(Top.parts)
    /\ IF Len(stack) > 1
       THEN /\ stack' = Advance(SubSeq(stack, 1, Len(stack) - 1))
            /\ UNCHANGED <<pc, dst, calls>>
       ELSE /\ stack' = <<>>
            /\ pc' = "telegram"
            /\ dst' = 1
            /\ calls' = Append(calls, <<"telegram", LINES[idx]>>)
    /\ UNCHANGED <<state_file, posted, clock, cycle, pretend, self_status,
                   status, idx, message, error, loaded, seen, events, outbox,
                   loads, writes, retries, rejects, fetched, prev>>
    /\ UNCHANGED chunkVars
    /\ UNCHANGED mainEnvVars
    /\ UNCHANGED overlapVars

\* TelegramRequest that cuts the text to what fits a tweet
TelegramRequestCut(d, msg) ==
    [channel |-> "telegram", to |-> d,
     text |-> SubSeq(msg, 1, IF Len(msg) < TweetLimit THEN Len(msg) ELSE TweetLimit - 1)]

\* the request publish_telegram builds for a destination (lines 161-165)
TelegramRequest(d, msg) == [channel |-> "telegram", to |-> d, text |-> msg]

\* publish_telegram, lines 160-167: sendMessage to the next destination
TelegramSend ==
    /\ pc = "telegram"
    /\ dst <= Len(Destinations)
    /\ outbox' = Append(outbox, TelegramRequest(Destinations[dst], message))
    /\ dst' = dst + 1
    /\ UNCHANGED <<state_file, posted, clock, cycle, pc, pretend, self_status,
                   status, idx, message, stack, error, loaded, seen, events,
                   calls, loads, writes, retries, rejects, fetched, prev>>
    /\ UNCHANGED chunkVars
    /\ UNCHANGED mainEnvVars
    /\ UNCHANGED overlapVars

\* publish_telegram, line 167: urlopen raises
TelegramError ==
    /\ pc = "telegram"
    /\ dst <= Len(Destinations)
    /\ pc' = "raised"
    /\ error' = "telegram"
    /\ UNCHANGED <<state_file, posted, clock, cycle, pretend, self_status,
                   status, idx, message, stack, dst, loaded, seen, events, calls,
                   outbox, loads, writes, retries, rejects, fetched, prev>>
    /\ UNCHANGED chunkVars
    /\ UNCHANGED mainEnvVars
    /\ UNCHANGED overlapVars

\* publish_telegram, publish and state_change return to the for loop
TelegramReturn ==
    /\ pc = "telegram"
    /\ dst > Len(Destinations)
    /\ pc' = "loop"
    /\ idx' = idx + 1
    /\ UNCHANGED <<state_file, posted, clock, cycle, pretend, self_status,
                   status, message, stack, dst, error, loaded, seen, events,
                   calls, outbox, loads, writes, retries, rejects, fetched, prev>>
    /\ UNCHANGED chunkVars
    /\ UNCHANGED mainEnvVars
    /\ UNCHANGED overlapVars

\* SaveState without the assignment of line 91: the old self.status is dumped
SaveStateStale ==
    /\ pc = "loop"
    /\ idx > Len(LINES)
    /\ state_file' = [exists |-> TRUE, data |-> self_status]
    /\ writes' = writes + 1
    /\ pc' = "done"
    /\ UNCHANGED <<posted, clock, cycle, pretend, self_status, status, idx,
                   message, stack, dst, error, loaded, seen, events, calls,
                   outbox, loads, retries, rejects, fetched, prev>>
    /\ UNCHANGED chunkVars
    /\ UNCHANGED mainEnvVars
    /\ UNCHANGED overlapVars

\* SaveState that leaves the state alone in a dry run
SaveStateNotInDryRun ==
    /\ pc = "loop"
    /\ idx > Len(LINES)
    /\ self_status' = IF pretend THEN self_status ELSE status
    /\ state_file' = IF pretend THEN state_file
                      ELSE [exists |-> TRUE, data |-> status]
    /\ writes' = IF pretend THEN writes ELSE writes + 1
    /\ pc' = "done"
    /\ UNCHANGED <<posted, clock, cycle, pretend, status, idx, message, stack,
                   dst, error, loaded, seen, events, calls, outbox, loads,
                   retries, rejects, fetched, prev>>
    /\ UNCHANGED chunkVars
    /\ UNCHANGED mainEnvVars
    /\ UNCHANGED overlapVars

\* check, lines 89-93: the for loop is over, the state is saved
SaveState ==
    /\ pc = "loop"
    /\ idx > Len(LINES)
    /\ self_status' = status
    /\ state_file' = [exists |-> TRUE, data |-> status]
    /\ writes' = writes + 1
    /\ pc' = "done"
    /\ UNCHANGED <<posted, clock, cycle, pretend, status, idx, message, stack,
                   dst, error, loaded, seen, events, calls, outbox, loads,
                   retries, rejects, fetched, prev>>
    /\ UNCHANGED chunkVars
    /\ UNCHANGED mainEnvVars
    /\ UNCHANGED overlapVars

\* the steps of an invocation that has started
Run ==
    \/ \E s \in Snapshots : GetStatus(s)
    \/ GetStatusFails
    \/ CheckLine
    \/ TwitterSkip
    \/ TwitterPost
    \/ TwitterDuplicate
    \/ TwitterError
    \/ TwitterReturn
    \/ TelegramSend
    \/ TelegramError
    \/ TelegramReturn
    \/ SaveState

Start == \E p \in BOOLEAN : Construct(p, MaxCycles)

Next == Tick \/ Start \/ Run

\* the program as the scheduler runs it
Spec == Init /\ [][Next]_vars

Restart == \E p \in BOOLEAN : Construct(p, MaxCycles + 1)

NextRerun == Tick \/ Restart \/ Run

\* the program with one more invocation after the last
SpecRerun == Init /\ [][NextRerun]_vars

\* dry runs (BOT_PRETEND=1) followed by one run that is not a dry run
StartDryRun == Construct(TRUE, MaxCycles)

StartRealRun == cycle = MaxCycles /\ Construct(FALSE, MaxCycles + 1)

NextDryRun == Tick \/ StartDryRun \/ StartRealRun \/ Run

SpecDryRun == Init /\ [][NextDryRun]_vars

\* the program started from __main__ in an environment that may lack some
\* of the variables it reads
InitMain ==
    /\ state_file \in StateFiles
    /\ posted \in {{}} \cup {{p} : p \in EarlierPosts}
    /\ clock = 0
    /\ cycle = 0
    /\ pc = "idle"
    /\ pretend = FALSE
    /\ self_status = NoStatus
    /\ status = NoStatus
    /\ idx = 0
    /\ message = ""
    /\ stack = <<>>
    /\ dst = 0
    /\ error = ""
    /\ loaded = NoStatus
    /\ seen = 0
    /\ events = <<>>
    /\ calls = <<>>
    /\ outbox = <<>>
    /\ loads = 0
    /\ writes = 0
    /\ retries = 0
    /\ rejects = 0
    /\ fetched = FALSE
    /\ prev = NoPrev
    /\ cmsg = ""
    /\ cts = ""
    /\ cloop = [words |-> <<>>, parts |-> <<>>]
    /\ cpc = "done"
    /\ env \in SUBSET Settings
    /\ diag = ""
    /\ procs = NoProcs
    /\ last_writer = 0

StartMain == \E p \in BOOLEAN : Main(p)

StartMainFails == \E p \in BOOLEAN : MainKeyError(p)

NextMain == Tick \/ StartMain \/ StartMainFails \/ MainCheckUnbound \/ Run

SpecMain == InitMain /\ [][NextMain]_vars

\* dry runs over a family of status texts: what state_change formats
FormatTexts ==
    {NormalText, FaultText, LongText, "a", ".", "z.", "avaria na Linha",
     "9 minutos de atraso", "Ok..", "fim. ", "Interrompida. sem previsao"}

FormatSnapshots ==
    {[l \in Lines |-> MLStatus(m, o)] : m \in FormatTexts, o \in BOOLEAN}

StartFormat == Construct(TRUE, MaxCycles)

GetStatusFormat == \E s \in FormatSnapshots : GetStatus(s)

NextFormat ==
    \/ StartFormat
    \/ GetStatusFormat
    \/ CheckLine
    \/ TwitterSkip
    \/ TwitterReturn
    \/ TelegramSend
    \/ TelegramReturn
    \/ SaveState

SpecFormat == Init /\ [][NextFormat]_vars

----------------------------------------------------------------------------
(* Two invocations of the program that overlap on one state file.  Each    *)
(* has its own MLBot object; the file is read in __init__ (lines 63-69)    *)
(* and written at the end of check (lines 92-93), with nothing in between  *)
(* that takes a lock.                                                      *)

Invocations == {1, 2}

NotStarted ==
    [pc |-> "idle", self_status |-> NoStatus, loaded |-> NoStatus,
     status |-> NoStatus, events |-> <<>>]

InitOverlap ==
    /\ state_file \in StateFiles
    /\ posted = {}
    /\ clock = 0
    /\ cycle = 0
    /\ pc = "idle"
    /\ pretend = FALSE
    /\ self_status = NoStatus
    /\ status = NoStatus
    /\ idx = 0
    /\ message = ""
    /\ stack = <<>>
    /\ dst = 0
    /\ error = ""
    /\ loaded = NoStatus
    /\ seen = 0
    /\ events = <<>>
    /\ calls = <<>>
    /\ outbox = <<>>
    /\ loads = 0
    /\ writes = 0
    /\ retries = 0
    /\ rejects = 0
    /\ fetched = FALSE
    /\ prev = NoPrev
    /\ cmsg = ""
    /\ cts = ""
    /\ cloop = [words |-> <<>>, parts |-> <<>>]
    /\ cpc = "done"
    /\ env = Settings
    /\ diag = ""
    /\ procs = [p \in Invocations |-> NotStarted]
    /\ last_writer = 0

\* __init__, lines 63-69, of invocation p
OverlapConstruct(p) ==
    /\ procs[p].pc = "idle"
    /\ procs' = [procs EXCEPT ![p] =
            [pc |-> "check",
             self_status |-> IF state_file.exists THEN state_file.data ELSE NoStatus,
             loaded |-> IF state_file.exists THEN state_file.data ELSE NoStatus,
             status |-> NoStatus, events |-> <<>>]]
    /\ UNCHANGED last_writer
    /\ UNCHANGED mainVars
    /\ UNCHANGED chunkVars
    /\ UNCHANGED mainEnvVars

\* check, line 75, of invocation p
OverlapGetStatus(p, s) ==
    /\ procs[p].pc = "check"
    /\ procs' = [procs EXCEPT ![p].pc = "loop", ![p].status = s]
    /\ UNCHANGED last_writer
    /\ UNCHANGED mainVars
    /\ UNCHANGED chunkVars
    /\ UNCHANGED mainEnvVars

\* check, line 75, of invocation p: get_status raises
OverlapGetStatusFails(p) ==
    /\ procs[p].pc = "check"
    /\ procs' = [procs EXCEPT ![p].pc = "raised"]
    /\ UNCHANGED last_writer
    /\ UNCHANGED mainVars
    /\ UNCHANGED chunkVars
    /\ UNCHANGED mainEnvVars

\* check, lines 78-87, of invocation p: the for loop, every publish succeeds
OverlapLoop(p) ==
    /\ procs[p].pc = "loop"
    /\ procs' = [procs EXCEPT
            ![p].pc = "save",
            ![p].events = SelectSeq(LINES, LAMBDA l :
                ShouldNotify(procs[p].self_status, l, procs[p].status[l]))]
    /\ UNCHANGED last_writer
    /\ UNCHANGED mainVars
    /\ UNCHANGED chunkVars
    /\ UNCHANGED mainEnvVars

\* check, lines 78-87, of invocation p: a publish raises at the n-th event
OverlapLoopFails(p, n) ==
    /\ procs[p].pc = "loop"
    /\ LET ev == SelectSeq(LINES, LAMBDA l :
                ShouldNotify(procs[p].self_status, l, procs[p].status[l]))
       IN  /\ n \in 1..Len(ev)
           /\ procs' = [procs EXCEPT ![p].pc = "raised",
                                     ![p].events = SubSeq(ev, 1, n)]
    /\ UNCHANGED last_writer
    /\ UNCHANGED mainVars
    /\ UNCHANGED chunkVars
    /\ UNCHANGED mainEnvVars

\* OverlapSaveState that leaves a file another invocation wrote since alone
OverlapSaveStateFirstWins(p) ==
    /\ procs[p].pc = "save"
    /\ procs' = [procs EXCEPT ![p].pc = "done",
                              ![p].self_status = procs[p].status]
    /\ state_file' = IF last_writer = 0
                      THEN [exists |-> TRUE, data |-> procs[p].status]
                      ELSE state_file
    /\ last_writer' = p
    /\ UNCHANGED <<posted, clock, cycle, pc, pretend, self_status, status, idx,
                   message, stack, dst, error, loaded, seen, events, calls,
                   outbox, loads, writes, retries, rejects, fetched, prev>>
    /\ UNCHANGED chunkVars
    /\ UNCHANGED mainEnvVars

\* check, lines 89-93, of invocation p
OverlapSaveState(p) ==
    /\ procs[p].pc = "save"
    /\ procs' = [procs EXCEPT ![p].pc = "done",
                              ![p].self_status = procs[p].status]
    /\ state_file' = [exists |-> TRUE, data |-> procs[p].status]
    /\ last_writer' = p
    /\ UNCHANGED <<posted, clock, cycle, pc, pretend, self_status, status, idx,
                   message, stack, dst, error, loaded, seen, events, calls,
                   outbox, loads, writes, retries, rejects, fetched, prev>>
    /\ UNCHANGED chunkVars
    /\ UNCHANGED mainEnvVars

NextOverlap ==
    \E p \in Invocations :
        \/ OverlapConstruct(p)
        \/ \E s \in Snapshots : OverlapGetStatus(p, s)
        \/ OverlapGetStatusFails(p)
        \/ OverlapLoop(p)
        \/ \E n \in 1..Len(LINES) : OverlapLoopFails(p, n)
        \/ OverlapSaveState(p)

SpecOverlap == InitOverlap /\ [][NextOverlap]_vars

TypeOK ==
    /\ pc \in {"idle", "unbound", "check", "loop", "twitter", "telegram", "done",
              "raised"}
    /\ cycle \in 0..(MaxCycles + 1)
    /\ Len(stack) <= MaxDepth

----------------------------------------------------------------------------
(* The chunking loop of publish_twitter (lines 181-195) taken alone, one   *)
(* iteration of the outer while loop per step, over a family of messages   *)

Copies(w, n) == Rep(w \o " ", n - 1) \o w

ChunkWords == {"a", "atraso", Rep("x", 100), Rep("x", 261), Rep("x", 262)}

ChunkCounts == {1, 2, 3, 37, 38, 45, 140}

ChunkMessages ==
    {Copies(w, n) : w \in ChunkWords, n \in ChunkCounts}
    \cup {Format(l, s) : l \in Lines, s \in Statuses}
    \cup {"", " ", "a  b", "fim " \o Copies("atraso", 40) \o "  "}

ChunkTimestamps == {Timestamp(0), Timestamp(1439)}

InitChunk ==
    /\ state_file = [exists |-> FALSE, data |-> NoStatus]
    /\ posted = {}
    /\ clock = 0
    /\ cycle = 0
    /\ pc = "idle"
    /\ pretend = FALSE
    /\ self_status = NoStatus
    /\ status = NoStatus
    /\ idx = 0
    /\ message = ""
    /\ stack = <<>>
    /\ dst = 0
    /\ error = ""
    /\ loaded = NoStatus
    /\ seen = 0
    /\ events = <<>>
    /\ calls = <<>>
    /\ outbox = <<>>
    /\ loads = 0
    /\ writes = 0
    /\ retries = 0
    /\ rejects = 0
    /\ fetched = FALSE
    /\ prev = NoPrev
    /\ cmsg \in ChunkMessages
    /\ cts \in ChunkTimestamps
    /\ cloop = [words |-> Split(cmsg), parts |-> <<>>]
    /\ cpc = "loop"
    /\ env = Settings
    /\ diag = ""
    /\ procs = NoProcs
    /\ last_writer = 0

\* lines 184-195: one iteration of the outer while loop
ChunkStep ==
    /\ cpc = "loop"
    /\ cloop.words # <<>>
    /\ Len(cloop.parts) < MaxParts
    /\ cloop' = ChunkIterate(cts, cloop)
    /\ UNCHANGED <<cmsg, cts, cpc>>
    /\ UNCHANGED mainVars
    /\ UNCHANGED mainEnvVars
    /\ UNCHANGED overlapVars

\* line 184: words is empty, the loop is left
ChunkEnd ==
    /\ cpc = "loop"
    /\ cloop.words = <<>>
    /\ cpc' = "done"
    /\ UNCHANGED <<cmsg, cts, cloop>>
    /\ UNCHANGED mainVars
    /\ UNCHANGED mainEnvVars
    /\ UNCHANGED overlapVars

NextChunk == ChunkStep \/ ChunkEnd

SpecChunk == InitChunk /\ [][NextChunk]_vars

\* the words a part carries after its timestamp
PartWords(ts, part) ==
    IF part = ts THEN <<>> ELSE Split(SubSeq(part, Len(ts) + 2, Len(part)))

RECURSIVE AllWords(_, _)
AllWords(ts, parts) ==
    IF parts = <<>> THEN <<>>
    ELSE PartWords(ts, Head(parts)) \o AllWords(ts, Tail(parts))

\* C8: every part the chunking loop has appended starts with the timestamp of
\* the call and is strictly shorter than the limit; the words of the parts in
\* order, followed by the words still to pack, are the words of the message;
\* and when the loop ends on a message longer than the limit there are at
\* least 2 parts.
C8_Chunking ==
    /\ \A k \in 1..Len(cloop.parts) :
          /\ StartsWith(cloop.parts[k], cts)
          /\ Len(cloop.parts[k]) < TweetLimit
    /\ AllWords(cts, cloop.parts) \o cloop.words = Split(cmsg)
    /\ (cpc = "done" /\ Len(cmsg) > TweetLimit) => Len(cloop.parts) >= 2

\* C8 witness: the loop has ended on a message longer than the limit, with
\* its words spread over several parts
C8_Witness ==
    /\ cpc = "done"
    /\ Len(cmsg) > TweetLimit
    /\ Len(cloop.parts) >= 2
    /\ Len(Split(cmsg)) > Len(cloop.parts)

----------------------------------------------------------------------------
(* Properties of a check cycle *)

Range(seq) == {seq[k] : k \in 1..Len(seq)}

\* the publisher calls of a cycle that handles the events ev to the end
RECURSIVE ExpectedCalls(_)
ExpectedCalls(ev) ==
    IF ev = <<>> THEN <<>>
    ELSE <<<<"twitter", Head(ev)>>, <<"telegram", Head(ev)>>>> \o ExpectedCalls(Tail(ev))

IsPrefix(a, b) == Len(a) <= Len(b) /\ a = SubSeq(b, 1, Len(a))

\* C1: for every line the for loop has decided on and that has a previous
\* persisted status, state_change was called (once) if and only if the ok flag
\* differs from the previous one, or the line is not ok and its message differs
\* from the previous one.
C1_Detection ==
    \A k \in 1..seen :
        LET l == LINES[k]
        IN  l \in DOMAIN loaded =>
              /\ (l \in Range(events)) <=>
                     \/ status[l].ok # loaded[l].ok
                     \/ (~status[l].ok /\ status[l].message # loaded[l].message)
              /\ Cardinality({j \in 1..Len(events) : events[j] = l}) <= 1

\* C1 witness: a cycle has ended in which one line went from disrupted to ok
\* with the same message and got an event, and another kept ok and its
\* message and got none
C1_Witness ==
    /\ pc = "done"
    /\ \E l \in DOMAIN loaded :
          /\ ~loaded[l].ok /\ status[l].ok
          /\ status[l].message = loaded[l].message
          /\ l \in Range(events)
    /\ \E l \in DOMAIN loaded : status[l] = loaded[l] /\ l \notin Range(events)

\* C2: a line with no previous entry gets an event as soon as the for loop
\* decides on it; with no state file the events are exactly the lines decided
\* on, in the order of LINES, and the missing file raises nothing.
C2_Bootstrap ==
    /\ \A k \in 1..seen : LINES[k] \notin DOMAIN loaded => LINES[k] \in Range(events)
    /\ (cycle >= 1 /\ loaded = NoStatus) =>
          /\ events = SubSeq(LINES, 1, seen)
          /\ error \in {"", "fetch", "twitter", "telegram"}
          /\ pc = "done" => events = LINES

\* C2 witness: a cycle that started without a state file has ended
C2_Witness ==
    /\ pc = "done"
    /\ loaded = NoStatus
    /\ events = LINES

\* C3: a cycle whose fetch succeeded has persisted the fetched snapshot when it
\* ends, also when a publish attempt failed.
C3_CommitUnconditional ==
    (fetched /\ pc \in {"done", "raised"}) =>
        (state_file.exists /\ state_file.data = status)

\* C4: an invocation loads the state once; it writes the state file once, when
\* the cycle completes, and not before every event of the cycle has been
\* published to both publishers; after a completed cycle the state file and
\* self.status are the fetched snapshot.
C4_CommitAfterPublish ==
    /\ loads = (IF cycle >= 1 THEN 1 ELSE 0)
    /\ writes = (IF pc = "done" THEN 1 ELSE 0)
    /\ pc = "done" =>
          /\ state_file = [exists |-> TRUE, data |-> status]
          /\ self_status = status
          /\ calls = ExpectedCalls(events)
    /\ pc \in {"check", "loop", "twitter", "telegram", "raised"} =>
          /\ self_status = loaded
          /\ state_file.data = loaded

\* C4 witness: a cycle with several events has completed and changed the state
C4_Witness ==
    /\ pc = "done"
    /\ Len(events) >= 2
    /\ status # loaded
    /\ writes = 1

\* C5: when two consecutive cycles fetch the same disrupted status for a line,
\* the second cycle has no event for that line.
C5_NoRenotify ==
    (cycle >= 2 /\ prev.fetched /\ fetched) =>
        \A l \in Lines :
            (~status[l].ok /\ status[l] = prev.status[l]) => l \notin Range(events)

\* C6: in pretend mode no outbound request is performed on any channel.
C6_PretendSendsNothing == pretend => outbox = <<>>

\* C7: every post rejected as a duplicate is answered by exactly one call of
\* publish_twitter, on the whole message of the rejected call with one period
\* appended, chunked anew and posted from its first part; a call is retried
\* only for a part the account holds already; and when the retried publish
\* returns, the caller of publish_twitter sees no error.
C7_DuplicateRetry ==
    /\ retries = rejects
    /\ Len(stack) <= retries + 1
    /\ \A k \in 2..Len(stack) :
          /\ stack[k].message = stack[k - 1].message \o "."
          /\ stack[k].parts = Parts(stack[k].message, stack[k].ts)
          /\ stack[k - 1].i <= Len(stack[k - 1].parts)
          /\ stack[k - 1].parts[stack[k - 1].i] \in posted
    /\ \A k \in 1..Len(stack) :
          ~pretend => \A j \in 1..(stack[k].i - 1) : stack[k].parts[j] \in posted
    /\ (rejects > 0 /\ pc \in {"telegram", "loop", "done"}) => error = ""

\* C7 witness: one post was rejected as a duplicate, the retried publish has
\* returned and publish has gone on to Telegram
C7_Witness ==
    /\ pc = "telegram"
    /\ rejects = 1
    /\ retries = 1
    /\ error = ""
    /\ \E k \in 1..Len(outbox) : outbox[k].text = Timestamp(clock) \o " " \o message \o "."

\* C9: the events are taken in the order of LINES; each is formatted and
\* handed to Twitter and then to Telegram before the next line is handled, so
\* the publisher calls are always a prefix of twitter, telegram per event, and
\* the whole of it whenever the for loop is between two lines.
C9_PublishOrder ==
    /\ \A i, j \in 1..Len(events) :
          i < j => \E a, b \in 1..Len(LINES) :
                       a < b /\ LINES[a] = events[i] /\ LINES[b] = events[j]
    /\ IsPrefix(calls, ExpectedCalls(events))
    /\ pc \in {"loop", "done"} => calls = ExpectedCalls(events)
    /\ pc \in {"twitter", "telegram"} =>
          /\ message = Format(LINES[idx], status[LINES[idx]])
          /\ events[Len(events)] = LINES[idx]
    /\ pc = "twitter" => stack[1].message = message

\* C9 witness: a cycle with two events or more has completed
C9_Witness ==
    /\ pc = "done"
    /\ Len(events) >= 2
    /\ Len(calls) = 2 * Len(events)

\* the sendMessage requests performed, in order
TelegramSent == SelectSeq(outbox, LAMBDA r : r.channel = "telegram")

\* the lines publish_telegram was called for, in order
TelegramLines ==
    LET c == SelectSeq(calls, LAMBDA x : x[1] = "telegram")
    IN  [k \in 1..Len(c) |-> c[k][2]]

\* C10: every publish_telegram call that has returned has sent the whole
\* formatted message, unsplit, once to each destination in turn; the call
\* under way has done so for the destinations it has reached.
C10_TelegramBroadcast ==
    LET n == Len(Destinations)
        under_way == pc \in {"telegram", "raised"} /\ error # "twitter"
                     /\ TelegramLines # <<>>
        whole == IF under_way THEN Len(TelegramLines) - 1 ELSE Len(TelegramLines)
    IN  /\ Len(TelegramSent) = whole * n + (IF under_way THEN dst - 1 ELSE 0)
        /\ \A k \in 1..Len(TelegramSent) :
              LET l == TelegramLines[((k - 1) \div n) + 1]
              IN  /\ TelegramSent[k].to = Destinations[((k - 1) % n) + 1]
                  /\ TelegramSent[k].text = Format(l, status[l])

\* C10 witness: a message longer than the tweet limit has gone to every
\* destination
C10_Witness ==
    /\ pc = "loop"
    /\ Len(TelegramSent) = Len(Destinations)
    /\ \A k \in 1..Len(TelegramSent) : Len(TelegramSent[k].text) > TweetLimit

----------------------------------------------------------------------------
\* C11: when a variable __main__ requires is missing, the start is aborted:
\* the log names the missing variable, the process ends without an error of
\* the interpreter and no check cycle is attempted.
C11_MissingSettingAborts ==
    (cycle > 0 /\ Missing(env, pretend) # <<>>) =>
        /\ diag = Diagnostic(Head(Missing(env, pretend)))
        /\ error = ""
        /\ ~fetched
        /\ outbox = <<>>

----------------------------------------------------------------------------
\* C12: when get_status fails the cycle ends with that failure: no event, no
\* publisher call and no outbound request was made, check's snapshot was never
\* assigned, self.status and the state file are what __init__ loaded, and a
\* state file this invocation wrote always holds every line.
C12_FetchFailureAborts ==
    /\ error = "fetch" =>
          /\ pc = "raised"
          /\ ~fetched
          /\ status = NoStatus
          /\ events = <<>>
          /\ calls = <<>>
          /\ outbox = <<>>
          /\ writes = 0
          /\ self_status = loaded
          /\ IF state_file.exists THEN state_file.data = loaded
                                  ELSE loaded = NoStatus
    /\ writes > 0 => DOMAIN state_file.data = Lines

C12_Witness ==
    /\ error = "fetch"
    /\ pc = "raised"
    /\ state_file.exists
    /\ state_file.data = DisruptedFile

----------------------------------------------------------------------------
\* the upper-case form of a one-character string, by its place in the alphabet
UpperOf(c) ==
    LET lower == "abcdefghijklmnopqrstuvwxyz"
        upper == "ABCDEFGHIJKLMNOPQRSTUVWXYZ"
        at == {k \in 1..26 : SubSeq(lower, k, k) = c}
    IN  IF at = {} THEN c ELSE LET k == CHOOSE k \in at : TRUE
                               IN  SubSeq(upper, k, k)

\* C13: the message state_change hands to publish is the glyph of the ok flag
\* (one of two), " Linha ", the line, ": " and the status message with only
\* its first character upper-cased, followed by a period exactly when the
\* status message does not end with one; it ends with a period and nothing
\* of the status message is cut.
C13_Format ==
    pc \in {"twitter", "telegram"} =>
        LET line == LINES[idx]
            st == status[line]
            n == Len(st.message)
            glyph == IF st.ok THEN UP_GLYPH ELSE DOWN_GLYPH
            head == glyph \o " Linha " \o line \o ": "
            body == SubSeq(message, Len(head) + 1, Len(message))
            dotted == SubSeq(st.message, n, n) = "."
        IN  /\ UP_GLYPH # DOWN_GLYPH
            /\ SubSeq(message, 1, Len(head)) = head
            /\ SubSeq(body, 1, 1) = UpperOf(SubSeq(st.message, 1, 1))
            /\ SubSeq(body, 2, n) = SubSeq(st.message, 2, n)
            /\ Len(body) = IF dotted THEN n ELSE n + 1
            /\ SubSeq(message, Len(message), Len(message)) = "."

C13_Witness ==
    /\ pc = "telegram"
    /\ idx = Len(LINES)
    /\ ~status["Verde"].ok
    /\ status["Verde"].message = "avaria na Linha"
    /\ message = "!^ Linha Verde: Avaria na Linha."

----------------------------------------------------------------------------
\* C14: the duplicate retry of publish_twitter terminates because every retry
\* makes progress: the part whose rejection caused a recursive call is not
\* among the parts of the lengthened message that call posts.
C14_RetryMakesProgress ==
    \A k \in 2..Len(stack) :
        LET caller == stack[k - 1]
        IN  caller.parts[caller.i] \notin Range(stack[k].parts)

----------------------------------------------------------------------------
\* C15: the chunking loop of publish_twitter terminates on every message and
\* every part it appends carries at least one word: each iteration moves a
\* word from the words left to the parts, so the parts never outnumber the
\* words taken.
C15_ChunkLoopTerminates ==
    /\ \A k \in 1..Len(cloop.parts) : PartWords(cts, cloop.parts[k]) # <<>>
    /\ Len(cloop.parts) + Len(cloop.words) <= Len(Split(cmsg))

----------------------------------------------------------------------------
\* the statuses this invocation got accepted by Twitter
TwitterSent ==
    {outbox[k].text : k \in {n \in 1..Len(outbox) : outbox[n].channel = "twitter"}}

\* C16: in a publish_twitter call, once a part was rejected as a duplicate and
\* the retry has posted the lengthened message, no later part of the call's
\* own message is posted: among the parts a call is done with, none that
\* follows a rejected one was accepted.
C16_NoPostAfterRetry ==
    ~pretend =>
        \A k \in 1..Len(stack) :
            \A j, n \in 1..(stack[k].i - 1) :
                (j < n /\ stack[k].parts[j] \notin TwitterSent) =>
                    stack[k].parts[n] \notin TwitterSent

----------------------------------------------------------------------------
\* C17: a post that fails with an error other than the duplicate code is not
\* retried and ends the invocation: the error has left publish_twitter and
\* its callers with the failed part still the current one, publish_telegram
\* was not called for the event, no retry was made but for duplicates, the
\* state was not saved, and from then on the invocation posts nothing.
C17_OtherErrorPropagates ==
    /\ [](error = "twitter" =>
            /\ pc = "raised"
            /\ stack # <<>>
            /\ Top.i <= Len(Top.parts)
            /\ calls # <<>>
            /\ calls[Len(calls)] = <<"twitter", LINES[idx]>>
            /\ retries = rejects
            /\ writes = 0)
    /\ [][(error = "twitter" /\ cycle' = cycle) =>
            (outbox' = outbox /\ posted' = posted /\ stack' = stack)]_vars

C17_Witness ==
    /\ error = "twitter"
    /\ Len(stack) = 2
    /\ Top.i = 2
    /\ Len(outbox) = 1

----------------------------------------------------------------------------
\* C18: two invocations that overlap on one state file do not lock it: an
\* invocation that is about to load or to save can always do so whatever the
\* other is doing; each compares with the state it loaded itself; and once an
\* invocation has saved, the file holds the snapshot of the one that saved
\* last.
C18_LastWriterWins ==
    /\ \A p \in Invocations :
          /\ procs[p].pc = "idle" => ENABLED OverlapConstruct(p)
          /\ procs[p].pc = "save" => ENABLED OverlapSaveState(p)
          /\ procs[p].pc \in {"save", "done"} =>
                \A l \in Lines :
                    l \in Range(procs[p].events)
                        <=> ShouldNotify(procs[p].loaded, l, procs[p].status[l])
    /\ IF last_writer = 0
       THEN state_file \in StateFiles /\ \A p \in Invocations : procs[p].pc # "done"
       ELSE /\ procs[last_writer].pc = "done"
            /\ state_file = [exists |-> TRUE, data |-> procs[last_writer].status]

\* both loaded the same state, fetched the same disruption, each notified
\* it, and the file holds what the second to save fetched
C18_Witness ==
    /\ \A p \in Invocations : procs[p].pc = "done"
    /\ procs[1].loaded = procs[2].loaded
    /\ procs[1].events = <<"Amarela">>
    /\ procs[2].events = <<"Amarela">>
    /\ procs[1].status # procs[2].status
    /\ last_writer = 2
    /\ state_file.data = procs[2].status

----------------------------------------------------------------------------
\* C19: pretend does not change what check does to the state: a cycle that
\* completes, dry run or not, has written the fetched snapshot to the state
\* file and to self.status; so the cycle after a completed dry run loads the
\* snapshot the dry run fetched and has no event for a line whose status is
\* still the one the dry run saw.
C19_DryRunCommits ==
    /\ pc = "done" =>
          /\ writes = 1
          /\ self_status = status
          /\ state_file = [exists |-> TRUE, data |-> status]
    /\ (cycle >= 2 /\ prev.done /\ prev.pretend) =>
          /\ loaded = prev.status
          /\ \A k \in 1..seen :
                status[LINES[k]] = prev.status[LINES[k]]
                    => LINES[k] \notin Range(events)

\* a dry run saw the fault on Amarela (no state file holds it) and completed;
\* the run after it, not a dry run, fetched the same and notified nothing
C19_Witness ==
    /\ cycle = 2
    /\ ~pretend
    /\ prev.done
    /\ prev.pretend
    /\ pc = "done"
    /\ prev.status["Amarela"] = MLStatus(FaultText, FALSE)
    /\ status = prev.status
    /\ events = <<>>

====
